---- MODULE Spec2Model ----
(***************************************************************************)
(* Model of src/cleanup.py: DremioS3Cleanup.run and the methods it calls.  *)
(* Strings are sequences of one-character strings.  The Dremio session,    *)
(* the S3 client and the file system are the environment: every call to    *)
(* them has a nondeterministic outcome, and a KeyboardInterrupt may arrive *)
(* at any point of the body of run.                                        *)
(***************************************************************************)
EXTENDS Integers, Sequences, FiniteSets, TLC

\* ------------------------------------------------------------------ bounds
MaxLen == 3
MaxRows == 2
MaxKeys == 2

Alphabet == {"s", "."}
FilterPrefixes == {<<>>, <<"s">>}
Buckets == {<<"b">>}

RECURSIVE StringsUpTo(_)
StringsUpTo(n) ==
  IF n = 0 THEN {<<>>}
  ELSE LET shorter == StringsUpTo(n - 1)
       IN shorter \cup {Append(s, c) : s \in {t \in shorter : Len(t) = n - 1}, c \in Alphabet}

Paths == StringsUpTo(MaxLen)

RECURSIVE SeqsUpTo(_, _)
SeqsUpTo(S, n) ==
  IF n = 0 THEN {<<>>}
  ELSE LET shorter == SeqsUpTo(S, n - 1)
       IN shorter \cup {Append(s, x) : s \in {t \in shorter : Len(t) = n - 1}, x \in S}

\* ----------------------------------------------------------- str helpers
\* str.startswith
StartsWith(s, p) == Len(p) <= Len(s) /\ SubSeq(s, 1, Len(p)) = p

\* `ch in s`
Contains(s, ch) == \E i \in 1..Len(s) : s[i] = ch

\* str.find: 0-based index of the first occurrence, -1 when there is none
Find(s, ch) ==
  IF Contains(s, ch)
  THEN (CHOOSE i \in 1..Len(s) : s[i] = ch /\ \A j \in 1..(i - 1) : s[j] # ch) - 1
  ELSE -1

\* s[start:] with a 0-based start
SliceFrom(s, start) == SubSeq(s, start + 1, Len(s))

\* str.replace on single characters
Replace(s, old, new) == [i \in 1..Len(s) |-> IF s[i] = old THEN new ELSE s[i]]

\* lines 263-272 with first_dot_index kept instead of first_dot_index + 1
s3_prefix_keepdot(extracted_path) ==
  LET rest == IF Contains(extracted_path, ".")
              THEN SliceFrom(extracted_path, Find(extracted_path, "."))
              ELSE extracted_path
  IN Replace(rest, ".", "/")

\* lines 263-272: the prefix derived from one extracted path
s3_prefix(extracted_path) ==
  LET rest == IF Contains(extracted_path, ".")
              THEN SliceFrom(extracted_path, Find(extracted_path, ".") + 1)
              ELSE extracted_path
  IN Replace(rest, ".", "/")

\* line 275: f"s3://{bucket_name}/{s3_prefix}"
s3_path(bucket_name, prefix) == <<"s3://">> \o bucket_name \o <<"/">> \o prefix

\* ------------------------------------------------------- pandas helpers
NA == <<"NaN">>

\* Series.dropna
dropna(col) == SelectSeq(col, LAMBDA v : v # NA)

\* Series.unique: first occurrences, in order of appearance
RECURSIVE unique(_)
unique(col) ==
  IF col = <<>> THEN <<>>
  ELSE LET front == unique(SubSeq(col, 1, Len(col) - 1))
           last == col[Len(col)]
       IN IF \E i \in 1..Len(front) : front[i] = last THEN front ELSE Append(front, last)

\* df[mask] with mask = str.startswith(filter_prefix), lines 205-217
filter_rows(rows, filter_prefix) ==
  IF filter_prefix # <<>>
  THEN SelectSeq(rows, LAMBDA p : StartsWith(p, filter_prefix))
  ELSE rows

\* `not extracted_paths` on the ndarray returned by unique(), line 252:
\* more than one element raises ValueError, one element is the truth of
\* that element, no element is false.
ArrayTruth(arr) ==
  IF Len(arr) > 1 THEN "ValueError"
  ELSE IF Len(arr) = 1 /\ arr[1] # <<>> THEN "true" ELSE "false"

\* ------------------------------------------------------------ run pieces
\* line 374 with the other flag: dry_run=args.dry_run
DryRunArg_fromflag(a) == a.dry_run

\* line 374: dry_run=not args.delete
DryRunArg(a) == ~a.delete

\* lines 349 and 372: args.delete or args.dry_run
S3Requested(a) == a.delete \/ a.dry_run

\* line 300 with the preview branch never taken
PreviewOnly_never(dry_run) == FALSE

\* line 300: if dry_run
PreviewOnly(dry_run) == dry_run

\* line 314 with the increment lost
CountError_lost(e) == e

\* lines 314 and 318: error_count += 1
CountError(e) == e + 1

\* line 385 with the session left open
CloseNeeded_never(fc) == FALSE

\* line 385: if self.flight_client
CloseNeeded(fc) == fc = "open"

\* the return statements of run, with an interruption reported as success
ExitCode_interrupt0(site) == IF site \in {"success", "interrupt"} THEN 0 ELSE 1

\* the return statements of run: line 376 returns 0, lines 346, 351, 356,
\* 380 and 383 return 1
ExitCode(site) == IF site = "success" THEN 0 ELSE 1

\* save_results with the emptiness test dropping single-row results too
save_results_short(df, old) == IF Len(df.rows) <= 1 THEN old ELSE df.rows

\* lines 328-336: the content of results.csv after save_results(df)
save_results(df, old) == IF df.rows = <<>> THEN old ELSE df.rows

\* line 309 with the first key deleted on every iteration
DeleteTarget_first(keys, k) == keys[1]

\* lines 307-309: the key passed to delete_object on iteration k
DeleteTarget(keys, k) == keys[k]

\* key number k under a prefix, as the listing returns it
Key(prefix, k) == Append(prefix, ToString(k))

Absent == <<<<"absent">>>>

VARIABLES
  pc,               \* position in run
  args,             \* parsed command line
  flight_client,    \* "None", "open" or "closed"
  closeCalls,       \* number of flight_client.close() calls
  s3_client,        \* TRUE once setup_s3_client has succeeded
  raw,              \* rows read from Dremio (reader.read_pandas)
  results,          \* the filtered data frame: [hasCol, rows]
  csv,              \* content of results.csv, Absent when not written
  entered,          \* TRUE once delete_s3_objects has been called
  dry_run,          \* parameter of delete_s3_objects (default True, line 239)
  extracted_paths,  \* line 250
  idx,              \* position of the for loop of line 261
  objects_to_delete,
  kidx,             \* position of the for loop of line 307
  deleted_count,
  error_count,
  processed,        \* lines 276-278: [extracted_path, s3_path] printed
  listCalls,        \* list_objects_v2 calls: [Bucket, Prefix]
  deleteCalls,      \* delete_object calls: [Bucket, Key]
  listedKeys,       \* keys returned by the listings that completed
  listFailed,       \* listings that raised
  delFailed,        \* delete_object calls that raised
  summary,          \* lines 320-323, mode "none" until printed
  failures,         \* failures that happened during the run
  exit_code         \* -1 until run returns

vars == <<pc, args, flight_client, closeCalls, s3_client, raw, results, csv,
          entered, dry_run, extracted_paths, idx, objects_to_delete, kidx,
          deleted_count, error_count, processed, listCalls, deleteCalls,
          listedKeys, listFailed, delFailed, summary, failures, exit_code>>

s3vars == <<entered, dry_run, extracted_paths, idx, objects_to_delete, kidx,
            deleted_count, error_count, processed, listCalls, deleteCalls,
            listedKeys, listFailed, delFailed, summary>>

NoSummary == [mode |-> "none", processed |-> 0, errors |-> 0]

NoResults == [hasCol |-> FALSE, rows |-> <<>>]

\* lines 19-21 and 340: the object after construction and parse_arguments
Init ==
  /\ pc = "connect"
  /\ args \in [bucket : Buckets, filter_prefix : FilterPrefixes,
               dry_run : BOOLEAN, delete : BOOLEAN]
  /\ flight_client = "None"
  /\ closeCalls = 0
  /\ s3_client = FALSE
  /\ raw = NoResults
  /\ results = NoResults
  /\ csv = Absent
  /\ entered = FALSE
  /\ dry_run = TRUE
  /\ extracted_paths = <<>>
  /\ idx = 0
  /\ objects_to_delete = <<>>
  /\ kidx = 0
  /\ deleted_count = 0
  /\ error_count = 0
  /\ processed = <<>>
  /\ listCalls = <<>>
  /\ deleteCalls = <<>>
  /\ listedKeys = <<>>
  /\ listFailed = 0
  /\ delFailed = 0
  /\ summary = NoSummary
  /\ failures = {}
  /\ exit_code = -1

\* a return or a caught exception inside the try of run: the finally runs next
Return(site) ==
  /\ exit_code' = ExitCode(site)
  /\ failures' = IF site = "success" THEN failures ELSE failures \cup {site}
  /\ pc' = "finally"

\* lines 344-346 and 94-159: connect_to_dremio
Connect ==
  /\ pc = "connect"
  /\ \/ /\ flight_client' = "open"
        /\ pc' = "setup"
        /\ UNCHANGED <<exit_code, failures>>
     \/ /\ \E site \in {"missing config", "connection failure"} : Return(site)
        /\ UNCHANGED flight_client
  /\ UNCHANGED <<args, closeCalls, s3_client, raw, results, csv>>
  /\ UNCHANGED s3vars

\* lines 349-351 and 161-178: setup_s3_client, only when a flag asks for it
SetupS3 ==
  /\ pc = "setup"
  /\ IF S3Requested(args)
     THEN \/ /\ s3_client' = TRUE
             /\ pc' = "query"
             /\ UNCHANGED <<exit_code, failures>>
          \/ /\ Return("s3 setup failure")
             /\ UNCHANGED s3_client
     ELSE /\ pc' = "query"
          /\ UNCHANGED <<s3_client, exit_code, failures>>
  /\ UNCHANGED <<args, flight_client, closeCalls, raw, results, csv>>
  /\ UNCHANGED s3vars

\* lines 354-356 and 180-226: query_deleted_tables
Query ==
  /\ pc = "query"
  /\ \/ \E df \in [hasCol : {TRUE}, rows : SeqsUpTo(Paths, MaxRows)]
              \cup [hasCol : {FALSE}, rows : SeqsUpTo({<<>>}, MaxRows)] :
          /\ raw' = df
          /\ results' = IF df.hasCol
                        THEN [df EXCEPT !.rows = filter_rows(df.rows, args.filter_prefix)]
                        ELSE df
          /\ pc' = "save"
          /\ UNCHANGED <<exit_code, failures>>
     \/ /\ Return("query failure")
        /\ UNCHANGED <<raw, results>>
  /\ UNCHANGED <<args, flight_client, closeCalls, s3_client, csv>>
  /\ UNCHANGED s3vars

\* lines 359-376: display, save_results, then the S3 step or return 0
Save ==
  /\ pc = "save"
  /\ \/ /\ csv' = save_results(results, csv)
        /\ IF S3Requested(args)
           THEN /\ pc' = "delete_s3_objects"
                /\ UNCHANGED <<exit_code, failures>>
           ELSE Return("success")
     \/ /\ results.rows # <<>>       \* df.to_csv raises
        /\ Return("unexpected exception")
        /\ UNCHANGED csv
  /\ UNCHANGED <<args, flight_client, closeCalls, s3_client, raw, results>>
  /\ UNCHANGED s3vars

\* lines 239-259: the entry of delete_s3_objects, up to the for loop
EnterDelete ==
  /\ pc = "delete_s3_objects"
  /\ entered' = TRUE
  /\ dry_run' = DryRunArg(args)
  /\ IF results.rows = <<>> \/ ~results.hasCol
     THEN /\ Return("success")
          /\ UNCHANGED <<extracted_paths, idx>>
     ELSE LET paths == unique(dropna(results.rows))
              truth == ArrayTruth(paths)
          IN /\ extracted_paths' = paths
             /\ IF truth = "ValueError"
                THEN Return("unexpected exception") /\ UNCHANGED idx
                ELSE IF truth = "false"
                THEN Return("success") /\ UNCHANGED idx
                ELSE /\ idx' = 1
                     /\ pc' = "list"
                     /\ UNCHANGED <<exit_code, failures>>
  /\ UNCHANGED <<args, flight_client, closeCalls, s3_client, raw, results, csv,
                 objects_to_delete, kidx, deleted_count, error_count, processed,
                 listCalls, deleteCalls, listedKeys, listFailed, delFailed, summary>>

\* lines 261-304 and 316-318: one iteration of the for loop up to the
\* listing; the listing returns n keys and then completes or raises
ListObjects ==
  /\ pc = "list"
  /\ idx <= Len(extracted_paths)
  /\ LET extracted_path == extracted_paths[idx]
         prefix == s3_prefix(extracted_path)
     IN /\ processed' = Append(processed, [extracted_path |-> extracted_path,
                                           s3_path |-> s3_path(args.bucket, prefix)])
        /\ listCalls' = Append(listCalls, [Bucket |-> args.bucket, Prefix |-> prefix])
        /\ \E n \in 0..MaxKeys, raised \in BOOLEAN :
             LET keys == [k \in 1..n |-> Key(prefix, k)]
             IN IF raised
                THEN /\ error_count' = CountError(error_count)
                     /\ listFailed' = listFailed + 1
                     /\ objects_to_delete' = keys
                     /\ idx' = idx + 1
                     /\ UNCHANGED <<pc, kidx, deleted_count, listedKeys>>
                ELSE /\ listedKeys' = listedKeys \o keys
                     /\ objects_to_delete' = keys
                     /\ UNCHANGED <<error_count, listFailed>>
                     /\ IF n = 0
                        THEN idx' = idx + 1 /\ UNCHANGED <<pc, kidx, deleted_count>>
                        ELSE IF PreviewOnly(dry_run)
                        THEN /\ deleted_count' = deleted_count + n
                             /\ idx' = idx + 1
                             /\ UNCHANGED <<pc, kidx>>
                        ELSE /\ kidx' = 1
                             /\ pc' = "delete"
                             /\ UNCHANGED <<idx, deleted_count>>
  /\ UNCHANGED <<args, flight_client, closeCalls, s3_client, raw, results, csv,
                 entered, dry_run, extracted_paths, deleteCalls, delFailed,
                 summary, failures, exit_code>>

\* lines 307-314: one iteration of the delete loop
DeleteObject ==
  /\ pc = "delete"
  /\ kidx <= Len(objects_to_delete)
  /\ deleteCalls' = Append(deleteCalls, [Bucket |-> args.bucket,
                                         Key |-> DeleteTarget(objects_to_delete, kidx)])
  /\ \/ /\ deleted_count' = deleted_count + 1
        /\ UNCHANGED <<error_count, delFailed>>
     \/ /\ error_count' = CountError(error_count)
        /\ delFailed' = delFailed + 1
        /\ UNCHANGED deleted_count
  /\ IF kidx = Len(objects_to_delete)
     THEN /\ idx' = idx + 1
          /\ pc' = "list"
          /\ UNCHANGED kidx
     ELSE /\ kidx' = kidx + 1
          /\ UNCHANGED <<idx, pc>>
  /\ UNCHANGED <<args, flight_client, closeCalls, s3_client, raw, results, csv,
                 entered, dry_run, extracted_paths, objects_to_delete, processed,
                 listCalls, listedKeys, listFailed, summary, failures, exit_code>>

\* lines 320-326 and 376: the summary after the for loop, then return 0
Summary ==
  /\ pc = "list"
  /\ idx > Len(extracted_paths)
  /\ summary' = [mode |-> IF dry_run THEN "DRY RUN" ELSE "ACTUAL",
                 processed |-> deleted_count,
                 errors |-> error_count]
  /\ Return("success")
  /\ UNCHANGED <<args, flight_client, closeCalls, s3_client, raw, results, csv,
                 entered, dry_run, extracted_paths, idx, objects_to_delete, kidx,
                 deleted_count, error_count, processed, listCalls, deleteCalls,
                 listedKeys, listFailed, delFailed>>

\* lines 378-380: KeyboardInterrupt raised anywhere in the try of run
Interrupt ==
  /\ pc \in {"connect", "setup", "query", "save", "delete_s3_objects", "list", "delete"}
  /\ Return("interrupt")
  /\ UNCHANGED <<args, flight_client, closeCalls, s3_client, raw, results, csv>>
  /\ UNCHANGED s3vars

\* lines 384-387: the finally of run
Finally ==
  /\ pc = "finally"
  /\ IF CloseNeeded(flight_client)
     THEN flight_client' = "closed" /\ closeCalls' = closeCalls + 1
     ELSE UNCHANGED <<flight_client, closeCalls>>
  /\ pc' = "done"
  /\ UNCHANGED <<args, s3_client, raw, results, csv, failures, exit_code>>
  /\ UNCHANGED s3vars

Next ==
  \/ Connect
  \/ SetupS3
  \/ Query
  \/ Save
  \/ EnterDelete
  \/ ListObjects
  \/ DeleteObject
  \/ Summary
  \/ Interrupt
  \/ Finally

Spec == Init /\ [][Next]_vars

\* ------------------------------------------------------------------ claims
Interrupted == "interrupt" \in failures

KeysOf(calls) == [i \in 1..Len(calls) |-> calls[i].Key]

PrefixesOf(calls) == [i \in 1..Len(calls) |-> calls[i].Prefix]

NoDuplicates(q) == \A i, j \in 1..Len(q) : q[i] = q[j] => i = j

Range(q) == {q[i] : i \in 1..Len(q)}

IsPrefixOf(q, r) == Len(q) <= Len(r) /\ SubSeq(r, 1, Len(q)) = q

\* C1: when delete_s3_objects runs with dry_run=True no delete_object call
\* is ever issued, and the summary counts as processed exactly the keys
\* that the listings returned.
C1_DryRunNeverDeletes ==
  (entered /\ dry_run) =>
    /\ deleteCalls = <<>>
    /\ delFailed = 0
    /\ summary.mode # "none" =>
         /\ summary.mode = "DRY RUN"
         /\ summary.processed = Len(listedKeys)

C1_Witness ==
  /\ entered /\ dry_run
  /\ summary.mode # "none"
  /\ Len(listCalls) >= 1
  /\ summary.processed = MaxKeys

\* the cases of C2: no dot at all, or nothing after the first dot
Degenerate(path) == ~Contains(path, ".") \/ Find(path, ".") = Len(path) - 1

\* C2: no storage listing and no delete call is issued for an extracted
\* path whose derived prefix is empty or a single top-level name.
C2_DegenerateRejected ==
  /\ \A i \in 1..Len(processed) : ~Degenerate(processed[i].extracted_path)
  /\ Len(listCalls) = Len(processed)

\* C3 as stated: the run is live exactly when --delete is given, and in
\* every other case a completed run has done the dry-run preview.
C3_Original ==
  (pc = "done" /\ exit_code = 0) =>
    /\ entered
    /\ dry_run = ~args.delete

\* C3 amended: live exactly when --delete is given, also together with
\* --dry-run; preview when only --dry-run is given; with neither flag no
\* S3 client is set up and delete_s3_objects is never called.
C3_ModeFromFlags ==
  /\ entered => (S3Requested(args) /\ dry_run = ~args.delete)
  /\ deleteCalls # <<>> => args.delete
  /\ (listCalls # <<>> /\ ~args.delete) => args.dry_run
  /\ ~S3Requested(args) => (~entered /\ ~s3_client /\ listCalls = <<>> /\ deleteCalls = <<>>)
  /\ (pc = "done" /\ exit_code = 0 /\ S3Requested(args)) => entered

C3_Witness ==
  /\ args.delete /\ args.dry_run
  /\ entered
  /\ deleteCalls # <<>>

\* C4 as stated: in live mode the summary's deleted count plus error count
\* equals the number of objects found, with one delete call per key found.
C4_Original ==
  (entered /\ ~dry_run /\ summary.mode # "none") =>
    /\ KeysOf(deleteCalls) = listedKeys
    /\ summary.processed + summary.errors = Len(listedKeys)

\* C4 amended: in a live run that reaches the summary, every key returned
\* by a completed listing got exactly one delete_object call, and deleted
\* count plus error count equals the objects found plus the number of
\* listings that failed.
C4_LiveCounts ==
  (entered /\ ~dry_run /\ summary.mode # "none") =>
    /\ KeysOf(deleteCalls) = listedKeys
    /\ NoDuplicates(KeysOf(deleteCalls))
    /\ summary.processed = Len(deleteCalls) - delFailed
    /\ summary.processed + summary.errors = Len(listedKeys) + listFailed

C4_Witness ==
  /\ entered /\ ~dry_run
  /\ summary.mode # "none"
  /\ Len(deleteCalls) = MaxKeys
  /\ delFailed = 1

Matching(rows, prefix) ==
  SelectSeq(rows, LAMBDA p : prefix = <<>> \/ (Len(p) >= Len(prefix) /\ \A i \in 1..Len(prefix) : p[i] = prefix[i]))

FilteredResult == IF raw.hasCol THEN Matching(raw.rows, args.filter_prefix) ELSE raw.rows

\* C6 as stated: every run that ends with exit code 0 has written
\* results.csv, also for a result with zero rows.
C6_Original ==
  (pc = "done" /\ exit_code = 0) => csv # Absent

\* C6 amended: every run that ends with exit code 0 and whose filtered
\* result has at least one row has written exactly the filtered result to
\* results.csv; with zero rows nothing is written; the file is written
\* before any storage listing or delete.
C6_CsvWritten ==
  /\ (pc = "done" /\ exit_code = 0 /\ FilteredResult # <<>>) => csv = FilteredResult
  /\ (pc = "done" /\ FilteredResult = <<>>) => csv = Absent
  /\ (listCalls # <<>> \/ deleteCalls # <<>>) => (csv # Absent /\ csv = FilteredResult)

C6_Witness ==
  /\ pc = "done" /\ exit_code = 0
  /\ args.filter_prefix # <<>>
  /\ Len(raw.rows) = 2
  /\ Len(csv) = 1
  /\ csv # Absent
  /\ listCalls # <<>>

HandledFailures == {"missing config", "connection failure", "s3 setup failure",
                    "query failure", "interrupt", "unexpected exception"}

\* C7: run returns 0 exactly when no step failed, 1 for each of the
\* handled failures, and nothing else.
C7_ExitCodes ==
  /\ failures \subseteq HandledFailures
  /\ pc \in {"finally", "done"} <=> exit_code # -1
  /\ pc = "done" =>
       /\ exit_code \in {0, 1}
       /\ exit_code = 1 <=> failures # {}
       /\ exit_code = 0 =>
            /\ flight_client = "closed"
            /\ S3Requested(args) => (s3_client /\ entered)
            /\ raw.rows # <<>> => csv # Absent \/ results.rows = <<>>

C7_Witness ==
  /\ pc = "done"
  /\ exit_code = 1
  /\ failures = {"unexpected exception"}
  /\ entered

\* C8: a session opened by connect_to_dremio is closed exactly once before
\* run returns, on every exit path, and a session that was never opened is
\* never closed; delete calls already issued are never taken back.
C8_SessionClosed ==
  /\ [](/\ closeCalls <= 1
        /\ closeCalls = 1 <=> flight_client = "closed"
        /\ pc = "done" => flight_client # "open"
        /\ (pc = "done" /\ failures \subseteq {"s3 setup failure", "query failure",
                                                "unexpected exception"}) => closeCalls = 1)
  /\ [][IsPrefixOf(deleteCalls, deleteCalls')]_vars

C8_Witness ==
  /\ pc = "done"
  /\ Interrupted
  /\ deleteCalls # <<>>
  /\ closeCalls = 1
  /\ flight_client = "closed"

\* the remainder of C9, stated position by position
IsRemainder(r, path) ==
  IF \A k \in 1..Len(path) : path[k] # "."
  THEN r = path
  ELSE \E k \in 1..Len(path) :
         /\ path[k] = "."
         /\ \A j \in 1..(k - 1) : path[j] # "."
         /\ Len(r) = Len(path) - k
         /\ \A i \in 1..Len(r) : r[i] = IF path[k + i] = "." THEN "/" ELSE path[k + i]

\* C9: the target printed for an extracted path is s3://<bucket>/<remainder>
\* and the same remainder is the Prefix of the listing call.
C9_DerivedTarget ==
  /\ Len(listCalls) = Len(processed)
  /\ \A i \in 1..Len(processed) :
       /\ listCalls[i].Bucket = args.bucket
       /\ IsRemainder(listCalls[i].Prefix, processed[i].extracted_path)
       /\ processed[i].s3_path = <<"s3://">> \o args.bucket \o <<"/">> \o listCalls[i].Prefix

C9_Witness ==
  \E i \in 1..Len(processed) :
    /\ processed[i].extracted_path = <<"s", ".", ".">>
    /\ listCalls[i].Prefix = <<"/">>

\* the distinct values of a column in order of first appearance
RECURSIVE FirstAppearances(_, _)
FirstAppearances(col, seen) ==
  IF col = <<>> THEN <<>>
  ELSE IF Head(col) \in seen THEN FirstAppearances(Tail(col), seen)
  ELSE <<Head(col)>> \o FirstAppearances(Tail(col), seen \cup {Head(col)})

\* C10: when delete_s3_objects has run to its end on a result with N >= 1
\* distinct extracted paths, the prefix of every distinct path was listed
\* exactly once, in the order of first appearance in the filtered result
\* (stated for results whose paths are all non-empty strings).
C10_EveryPathListedInOrder ==
  (/\ pc = "done" /\ entered /\ ~Interrupted /\ results.hasCol
   /\ \A i \in 1..Len(FilteredResult) : FilteredResult[i] # <<>>) =>
    LET distinct == FirstAppearances(FilteredResult, {})
    IN /\ Len(listCalls) = Len(distinct)
       /\ \A i \in 1..Len(distinct) : IsRemainder(listCalls[i].Prefix, distinct[i])

====
